---- MODULE Spec2Model ----
(***************************************************************************)
(* The per-client rate-limiting middleware of package anvil                *)
(* (src/middleware.go, rateLimiterMiddleware) as a timed state machine.    *)
(*                                                                         *)
(* Time is an integer number of ticks.  A limiter's token count is kept in *)
(* units of 1/TicksPerSecond token, so that one tick refills exactly       *)
(* `rate` units and the arithmetic of rate.Limiter is exact.               *)
(*                                                                         *)
(* The rest of the package is modelled next to it: one middleware per      *)
(* preset constructor, the HTTPServer builders and HTTPServer.Start,       *)
(* HandlerFunc with its JSON error response, and tools.JWT                 *)
(* (src/tools/json_web_tokens.go).  Each part has its own next-state       *)
(* relation and specification; the variables of the other parts stay as    *)
(* they are initially.                                                     *)
(***************************************************************************)
EXTENDS Integers, Naturals, Sequences, FiniteSets, TLC

\* ------------------------------------------------------------------ bounds
\* Requests the middleware may receive in one behaviour.
MaxReq == 3
\* Sweeper periods a behaviour of Spec spans.
MaxSweeps == 1
\* Sweeper periods a behaviour of SpecIdle spans.
MaxIdleSweeps == 7
\* Sub-minute clock steps (of half a refill interval) per behaviour of Spec.
MaxSteps == 2
\* Requests per behaviour of SpecIdle.
MaxIdleReq == 2
\* Requests per behaviour of SpecBurst.
MaxBurstReq == 12
\* Bursts of requests handled by other middleware instances that share the
\* limiter.
MaxSibling == 1
\* Requests, sweeper periods and refill intervals per behaviour of
\* SpecPresets.
MaxPresetReq == 2
MaxPresetSweeps == 1
MaxPresetSteps == 1
\* Calls in one chain of HTTPServer builders.
MaxChain == 3
\* Connections in flight at an HTTPServer, and the seconds a behaviour of
\* SpecStart spans.
MaxConns == 2
MaxUptime == 40
\* Quarter hours a behaviour of SpecJWT spans.
MaxQuarters == 3
MaxSeconds == 2
MaxLate == 1
\* Steps an APIFunc takes on its ResponseWriter, and the times handlers are
\* called at.
MaxOps == 2
MaxCallTime == 2
MaxLockReq == 2
MaxLockSweeps == 1
MaxEvictReq == 2
MaxEvictSweeps == 6
MaxRefillReq == 2
MaxRefillSteps == 2

\* ------------------------------------------------------------- time scale
TicksPerSecond == 60 * 1000
Minute == 60 * TicksPerSecond
\* time.Minute of line 217 and 5*time.Minute of line 221
SweepPeriod == Minute
IdleThreshold == 5 * Minute
\* The clock reading at which the middleware is constructed: the zero
\* time.Time of a new limiter's `last` lies far in its past.
Epoch == Minute

\* ------------------------------------------------------------ the presets
\* rate.NewLimiter(r, b): r tokens per second, burst b.
RateLimitPublicAPI == [rate |-> 5000, burst |-> 100]
RateLimitInternalAPI == [rate |-> 10000, burst |-> 200]
\* The web preset with its two arguments exchanged.
RateLimitUserWebAPISwapped == [rate |-> 30, burst |-> 300]
RateLimitUserWebAPI == [rate |-> 300, burst |-> 30]
RateLimitStrictAPI == [rate |-> 100, burst |-> 10]

\* The limiter RateLimitStrict hands to rateLimiterMiddleware.
rateLimit == RateLimitStrictAPI

\* The four package-level limiters and the constructors of lines 119-187.
LimiterVars == {"RateLimitPublicAPI", "RateLimitInternalAPI",
                "RateLimitUserWebAPI", "RateLimitStrictAPI"}
Constructors == {"RateLimitPublic", "RateLimitInternal", "RateLimitWeb",
                 "RateLimitStrict"}

\* The parameters each limiter was made with.
Preset(v) ==
  CASE v = "RateLimitPublicAPI" -> RateLimitPublicAPI
    [] v = "RateLimitInternalAPI" -> RateLimitInternalAPI
    [] v = "RateLimitUserWebAPI" -> RateLimitUserWebAPI
    [] v = "RateLimitStrictAPI" -> RateLimitStrictAPI

\* Every constructor handing over the limiter of RateLimitStrict.
LimiterOfStrict(c) == "RateLimitStrictAPI"

\* The limiter each constructor hands to rateLimiterMiddleware.
LimiterOf(c) ==
  CASE c = "RateLimitPublic" -> "RateLimitPublicAPI"
    [] c = "RateLimitInternal" -> "RateLimitInternalAPI"
    [] c = "RateLimitWeb" -> "RateLimitUserWebAPI"
    [] c = "RateLimitStrict" -> "RateLimitStrictAPI"

\* README, "Rate Limiting Configurations": requests per second and burst.
Documented(c) ==
  CASE c = "RateLimitPublic" -> [rate |-> 5000, burst |-> 100]
    [] c = "RateLimitInternal" -> [rate |-> 10000, burst |-> 200]
    [] c = "RateLimitWeb" -> [rate |-> 300, burst |-> 30]
    [] c = "RateLimitStrict" -> [rate |-> 100, burst |-> 10]

\* One token and the full burst, in token units.
OneToken == TicksPerSecond
Capacity(p) == p.burst * TicksPerSecond
\* 1/rate seconds, and half of it, in ticks.
RefillInterval(p) == TicksPerSecond \div p.rate
HalfInterval(p) == TicksPerSecond \div (2 * p.rate)
\* By how much a sweeper is late in one step of the clock: five milliseconds.
Lag == TicksPerSecond \div 200

\* ---------------------------------------------------------- rate.Limiter
\* A limiter fresh from rate.NewLimiter: no tokens, last = the zero time.
NewLimiter == [tokens |-> 0, last |-> 0]

\* advance that caps the refill at twice the burst.
AdvanceDoubleCap(lim, p, t) ==
  LET last == IF t < lim.last THEN t ELSE lim.last
      elapsed == t - last
      room == 2 * Capacity(p) - lim.tokens
      maxElapsed == (room + p.rate - 1) \div p.rate
  IN IF elapsed >= maxElapsed THEN 2 * Capacity(p)
     ELSE lim.tokens + elapsed * p.rate

\* Limiter.advance: the tokens the limiter holds at time t, refilled at
\* `rate` per second since `last` and capped at the burst.
Advance(lim, p, t) ==
  LET last == IF t < lim.last THEN t ELSE lim.last
      elapsed == t - last
      room == Capacity(p) - lim.tokens
      \* ticks after which the bucket is full (rounded up)
      maxElapsed == (room + p.rate - 1) \div p.rate
  IN IF elapsed >= maxElapsed THEN Capacity(p)
     ELSE lim.tokens + elapsed * p.rate

\* Allow that records the time of a rejected call in the limiter.
AllowStampOnReject(lim, p, t) ==
  LET tokens == Advance(lim, p, t) - OneToken
  IN IF tokens >= 0
     THEN [ok |-> TRUE, lim |-> [tokens |-> tokens, last |-> t]]
     ELSE [ok |-> FALSE, lim |-> [tokens |-> lim.tokens, last |-> t]]

\* Limiter.Allow() at time t: [ok, lim].  One token is taken when the
\* refilled bucket holds at least one; otherwise the limiter is unchanged.
Allow(lim, p, t) ==
  LET tokens == Advance(lim, p, t) - OneToken
  IN IF tokens >= 0
     THEN [ok |-> TRUE, lim |-> [tokens |-> tokens, last |-> t]]
     ELSE [ok |-> FALSE,
           lim |-> [tokens |-> lim.tokens,
                    last |-> IF t < lim.last THEN t ELSE lim.last]]

\* ------------------------------------------------------ net.SplitHostPort
\* An address is a sequence of symbols: ":", "[", "]" and runs of other
\* characters.
Colon == ":"
Addrs ==
  { <<"1.2.3.4", Colon, "5000">>, <<"1.2.3.4", Colon, "6000">>,
    <<"9.9.9.9", Colon, "80">>,
    <<"1.2.3.4">>, <<"9.9.9.9", Colon, "80", Colon, "81">>,
    <<"[", "1.2.3.4", Colon, "80">> }

\* The addresses of the long-running scenario and of the burst.
IdleAddrs == { <<"1.2.3.4", Colon, "5000">>, <<"1.2.3.4">> }
BurstAddrs == { <<"1.2.3.4", Colon, "5000">>, <<"9.9.9.9", Colon, "80">> }
PairAddrs == BurstAddrs \cup { <<"9.9.9.9">> }

Positions(s, c) == {i \in 1..Len(s) : s[i] = c}
LastIndex(s, c) == IF Positions(s, c) = {} THEN 0
                   ELSE CHOOSE i \in Positions(s, c) : \A j \in Positions(s, c) : j <= i
FirstIndex(s, c) == IF Positions(s, c) = {} THEN 0
                    ELSE CHOOSE i \in Positions(s, c) : \A j \in Positions(s, c) : i <= j

AddrError(why) == [err |-> why, host |-> <<>>, port |-> <<>>]

\* net.SplitHostPort(hostport): the host before the last colon (brackets
\* stripped) and the port after it, or an error.
SplitHostPort(hostport) ==
  LET n == Len(hostport)
      i == LastIndex(hostport, Colon)
      end == FirstIndex(hostport, "]")
      bracketed == n > 0 /\ hostport[1] = "["
      host == IF bracketed THEN SubSeq(hostport, 2, end - 1)
              ELSE SubSeq(hostport, 1, i - 1)
      j == IF bracketed THEN 2 ELSE 1
      k == IF bracketed THEN end + 1 ELSE 1
  IN IF i = 0 THEN AddrError("missing port in address")
     ELSE IF bracketed /\ end = 0 THEN AddrError("missing ']' in address")
     ELSE IF bracketed /\ end = n THEN AddrError("missing port in address")
     ELSE IF bracketed /\ end + 1 # i /\ hostport[end + 1] = Colon
       THEN AddrError("too many colons in address")
     ELSE IF bracketed /\ end + 1 # i THEN AddrError("missing port in address")
     ELSE IF ~bracketed /\ Positions(host, Colon) # {}
       THEN AddrError("too many colons in address")
     ELSE IF Positions(SubSeq(hostport, j, n), "[") # {}
       THEN AddrError("unexpected '[' in address")
     ELSE IF Positions(SubSeq(hostport, k, n), "]") # {}
       THEN AddrError("unexpected ']' in address")
     ELSE [err |-> "", host |-> host, port |-> SubSeq(hostport, i + 1, n)]

\* The client identities the addresses carry.
IPs == {SplitHostPort(a).host : a \in {b \in Addrs : SplitHostPort(b).err = ""}}

\* ------------------------------------------------------- the registry map
\* clients: a function from the tracked identities to their entries.  An
\* entry holds a pointer to a limiter (here the limiter's name) and lastSeen.
NoClients == << >>

\* GetOrCreate that stores the new entry in an empty map.
GetOrCreateOnly(cl, ip) ==
  IF ip \in DOMAIN cl THEN cl
  ELSE [x \in {ip} |-> [limiter |-> "rateLimit", lastSeen |-> 0]]

\* GetOrCreate without the `found` test: every request stores a new entry.
GetOrCreateAlways(cl, ip) ==
  [x \in DOMAIN cl \cup {ip} |->
     IF x = ip THEN [limiter |-> "rateLimit", lastSeen |-> 0] ELSE cl[x]]

\* Lines 238-240: the entry is created only when the identity is not found;
\* the new entry points at the limiter passed to the middleware, and its
\* lastSeen is the zero time.
GetOrCreate(cl, ip) ==
  IF ip \in DOMAIN cl THEN cl
  ELSE [x \in DOMAIN cl \cup {ip} |->
          IF x = ip THEN [limiter |-> "rateLimit", lastSeen |-> 0] ELSE cl[x]]

\* Touch that stamps every entry of the map.
TouchAll(cl, ip, t) == [x \in DOMAIN cl |-> [cl[x] EXCEPT !.lastSeen = t]]

\* Touch that stamps an entry only when it is new.
TouchOnCreate(cl, ip, t) ==
  IF cl[ip].lastSeen = 0 THEN [cl EXCEPT ![ip].lastSeen = t] ELSE cl

\* Line 241: clients[ip].lastSeen = time.Now()
Touch(cl, ip, t) == [cl EXCEPT ![ip].lastSeen = t]

\* Expired at the threshold already.
ExpiredAtThreshold(lastSeen, t) == t - lastSeen >= IdleThreshold

\* Expired with the sweep period added to the threshold.
ExpiredLate(lastSeen, t) == t - lastSeen > IdleThreshold + SweepPeriod

\* Line 221: time.Since(client.lastSeen) > 5*time.Minute
Expired(lastSeen, t) == t - lastSeen > IdleThreshold

\* Lines 220-224: one pass of the sweeper over the map at time t.
Sweep(cl, t) ==
  [x \in {y \in DOMAIN cl : ~Expired(cl[y].lastSeen, t)} |-> cl[x]]

\* ------------------------------------------------------------- responses
StatusInternalServerError == 500
StatusTooManyRequests == 429
NoHeader == "none"

\* Lines 245-253: the rejection written by the middleware.  WriteHeader is
\* called on a header map the handler never adds to, then the Message is
\* encoded as the body.
RejectionResponse(t) ==
  [status |-> StatusTooManyRequests,
   contentType |-> NoHeader,
   body |-> << [status |-> "Request Failed",
                body |-> "Rate limit reached. Please wait 5 minutes and try again.",
                locked |-> TRUE,
                timestamp |-> t] >>,
   nextCalls |-> 0]

\* The address failure answered like a rate-limit rejection.
AddressErrorAsRejection ==
  [status |-> StatusTooManyRequests, contentType |-> NoHeader,
   body |-> << >>, nextCalls |-> 0]

\* Lines 232-235: the failure written when the address cannot be split.
AddressErrorResponse ==
  [status |-> StatusInternalServerError, contentType |-> NoHeader,
   body |-> << >>, nextCalls |-> 0]

\* Line 257: the request is handed to next, which writes the response.
ForwardedResponse ==
  [status |-> 0, contentType |-> NoHeader, body |-> << >>, nextCalls |-> 1]

\* Respond without the return of line 254: a rejected request falls through
\* to next.
RespondFallThrough(ok, t) ==
  IF ok THEN ForwardedResponse
  ELSE [RejectionResponse(t) EXCEPT !.nextCalls = 1]

\* Lines 242-257: what the handler does with the limiter's answer.
Respond(ok, t) == IF ok THEN ForwardedResponse ELSE RejectionResponse(t)

\* ------------------------------------------------------------ HTTPServer
\* Durations are in seconds; an address is a sequence of symbols, a handler a
\* name ("nil" for no handler).
DefaultShutdownGracePeriod == 30
DefaultWriteTimeout == 30
DefaultReadTimeout == 15
DefaultIdleTimeout == 120

\* The arguments the builder calls are tried with.
Ports == {"8080", "9090"}
Durations == {5, 60}
Handlers == {"mux", "api"}

\* The zero value of the struct of lines 748-754.
NoServer == [Address |-> << >>, WriteTimeout |-> 0, ReadTimeout |-> 0,
             IdleTimeout |-> 0, Handler |-> "nil"]

\* Lines 771-778: fmt.Sprintf(":%s", address) and the default timeouts; no
\* handler.
NewServer(address) ==
  [Address |-> <<Colon, address>>,
   ReadTimeout |-> DefaultReadTimeout,
   WriteTimeout |-> DefaultWriteTimeout,
   IdleTimeout |-> DefaultIdleTimeout,
   Handler |-> "nil"]

\* Lines 792-850: each builder returns a new struct literal in which only its
\* own field is set; the receiver h is not read.
WithWriteTimeout(h, wto) == [NoServer EXCEPT !.WriteTimeout = wto]
WithReadTimeout(h, rto) == [NoServer EXCEPT !.ReadTimeout = rto]
WithIdleTimeout(h, ito) == [NoServer EXCEPT !.IdleTimeout = ito]
WithHandler(h, handler) == [NoServer EXCEPT !.Handler = handler]

\* The calls of a builder chain, as [op, arg] records.
Call(op, arg) == [op |-> op, arg |-> arg]

\* --------------------------------------------------------- HTTPServer.Start
\* The values the -graceful-timeout flag of line 879 is tried with, in
\* seconds: its default and a shorter one.
GraceFlags == {DefaultShutdownGracePeriod, 5}

\* context.WithTimeout(parent, d) at time t: the child is done as soon as its
\* parent is, or at its deadline.
WithTimeout(parentDone, t, d) == [parentDone |-> parentDone, deadline |-> t + d]
Done(cx, t) == cx.parentDone \/ t >= cx.deadline

\* http.Server.Shutdown(cx) at time t with `conns` connections in flight: nil
\* when none is left, cx.Err() as soon as cx is done, and otherwise it goes on
\* waiting.
Shutdown(cx, conns, t) ==
  IF conns = 0 THEN "nil"
  ELSE IF Done(cx, t) THEN "context error"
  ELSE "waiting"

\* Before Start is called.
NotStarted == [pc |-> "idle", ctxDone |-> FALSE, cancelAt |-> 0, wait |-> 0,
               conns |-> 0, clock |-> 0, cut |-> 0, err |-> "nil"]

\* ------------------------------------------------------------- tools.JWT
\* Times are in seconds.  A signed token is the record of its header
\* algorithm, the key its signature was made with and its registered claims;
\* a claim left empty is omitted from the token (omitempty).
Issuers == {"myapp.com", "other.com"}
Keys == {"key-1", "key-2"}
Algorithms == {"HS256", "HS384", "RS256", "none"}
HMACMethods == {"HS256", "HS384", "HS512"}
UserIDs == {"", "user123"}
Emails == {"user@example.com"}
\* The expiration argument of Generate: a nil pointer, or a pointer to a
\* number of minutes.
Nil == << >>
Expirations == {Nil, <<-1>>, <<0>>, <<15>>, <<30>>}

\* Lines 44-49.
NewJsonWebToken(issuer, key) == [Issuer |-> issuer, SigningKey |-> key]
JWTServices == {NewJsonWebToken(i, k) : i \in Issuers, k \in Keys}

NoToken == [alg |-> "", key |-> "", exp |-> 0, iat |-> 0, nbf |-> 0,
            iss |-> "", sub |-> "", jti |-> ""]
NoJWTClaims == [ID |-> "", Email |-> ""]

\* Lines 81-108.  Line 88 reads *expiration whether or not the pointer is
\* nil: a nil pointer is dereferenced and the call panics.  A negative
\* number leaves tokenExpiration at its zero value.  The clock is read three
\* times, at lines 93, 94 and 95, and jwt.NewNumericDate cuts each reading
\* to the second: tExp, tIat and tNbf are the three readings in seconds.
\* SignedString with HS256 and a []byte key returns no error.
Generate(tkn, claims, expiration, tExp, tIat, tNbf) ==
  IF expiration = Nil
  THEN [panic |-> TRUE, err |-> "", token |-> NoToken]
  ELSE LET tokenExpiration == IF expiration[1] >= 0 THEN expiration[1] * 60 ELSE 0
       IN [panic |-> FALSE, err |-> "",
           token |-> [alg |-> "HS256", key |-> tkn.SigningKey,
                      exp |-> tExp + tokenExpiration, iat |-> tIat, nbf |-> tNbf,
                      iss |-> tkn.Issuer, sub |-> claims.Email, jti |-> claims.ID]]

\* fmt.Sprint of a claim of the parsed token: an omitted claim is nil.
Sprint(claim) == IF claim = "" THEN "<nil>" ELSE claim

\* Lines 135-154 at time t.  jwt.Parse is called with the key function and
\* no parser option: it rejects a method the key function refuses, a
\* signature made with another key, an expired token and one not yet valid;
\* no issuer is expected.
Verify(tkn, token, t) ==
  LET Fail(why) == [err |-> why, claims |-> NoJWTClaims]
  IN IF token.alg \notin HMACMethods THEN Fail("unexpected signing method")
     ELSE IF token.key # tkn.SigningKey THEN Fail("signature is invalid")
     ELSE IF ~(t < token.exp) THEN Fail("token is expired")
     ELSE IF t < token.nbf THEN Fail("token is not valid yet")
     ELSE [err |-> "",
           claims |-> [ID |-> Sprint(token.jti), Email |-> Sprint(token.sub)]]

\* No call of the JWT service yet.
NoJWTCall == [op |-> "none", svc |-> NewJsonWebToken("", ""), arg |-> Nil,
              clock |-> 0, token |-> NoToken, minted |-> << >>,
              out |-> [panic |-> FALSE, err |-> "", claims |-> NoJWTClaims]]

\* ----------------------------------------------------------- HandlerFunc
StatusOK == 200
StatusBadRequest == 400

\* An http.ResponseWriter nothing was done to, for a request of the given
\* method: the Content-Type values and the Content-Length (-1: none) of its
\* header map, and what has been sent (status, the Content-Type sent with
\* it, the body chunks), with the length declared when the status was sent
\* and the bytes handed to Write since.
NewResponseWriter(method) ==
  [method |-> method, header |-> << >>, length |-> -1, wroteHeader |-> FALSE,
   status |-> 0, contentType |-> << >>, contentLength |-> -1, written |-> 0,
   body |-> << >>]

\* w.Header().Set / Add("Content-Type", v), w.Header().Set("Content-Length", n)
HeaderSet(w, v) == [w EXCEPT !.header = <<v>>]
HeaderAdd(w, v) == [w EXCEPT !.header = Append(@, v)]
HeaderSetLength(w, n) == [w EXCEPT !.length = n]

\* net/http bodyAllowedForStatus: no body with 1xx, 204 and 304.
BodyAllowedForStatus(status) ==
  ~(status \in 100..199 \/ status = 204 \/ status = 304)

\* w.WriteHeader(code), for the codes 200 and above used here: the first
\* call sends the status with the header map as it is, without its
\* Content-Type when the status is 304, and fixes the declared length; a
\* later call is ignored.
WriteHeader(w, code) ==
  IF w.wroteHeader THEN w
  ELSE [w EXCEPT !.wroteHeader = TRUE, !.status = code,
                 !.contentType = IF code = 304 THEN << >> ELSE w.header,
                 !.contentLength = w.length]

\* The bytes of a chunk: the page has 4; a JSON document written here has
\* more than 4, whatever its message and timestamp.
Size(chunk) == IF "html" \in DOMAIN chunk THEN 4 ELSE 64

\* w.Write(chunk), chunk not empty: sends status 200 first when no header
\* was written.  It writes nothing and returns ErrBodyNotAllowed when the
\* status allows no body, writes nothing and returns ErrContentLength when
\* the bytes handed to it so far exceed the declared length.  Otherwise the
\* chunk goes to the connection, with a sniffed Content-Type with the first
\* chunk when none was set; for a HEAD request the header is sent, sniffed
\* type included, and the chunk is dropped.
Write(w, chunk) ==
  LET w1 == WriteHeader(w, StatusOK)
      w2 == [w1 EXCEPT !.written = @ + Size(chunk)]
      w3 == IF w2.body = << >> /\ w2.contentType = << >>
            THEN [w2 EXCEPT !.contentType = <<"text/plain; charset=utf-8">>]
            ELSE w2
  IN IF ~BodyAllowedForStatus(w1.status) THEN w1
     ELSE IF w2.contentLength # -1 /\ w2.written > w2.contentLength THEN w2
     ELSE IF w2.method = "HEAD" THEN w3
     ELSE [w3 EXCEPT !.body = Append(@, chunk)]

\* The values handed to writeJSON are records.  json.Marshal refuses a
\* value that holds a channel, here a record with a field chan: Encode
\* returns an error and writes nothing.
Encodes(v) == "chan" \notin DOMAIN v

\* writeJSON with the header added after the status has been sent.
writeJSONHeaderLate(w, status, v) ==
  LET w1 == HeaderAdd(WriteHeader(w, status), "application/json")
  IN IF Encodes(v) THEN Write(w1, v) ELSE w1

\* Lines 632-636.
writeJSON(w, status, v) ==
  LET w1 == WriteHeader(HeaderAdd(w, "application/json"), status)
  IN IF Encodes(v) THEN Write(w1, v) ELSE w1

\* Lines 684-691, at time t.
formatError(err, t) == [error |-> err, timestamp |-> t]

\* Lines 656-658.
RespondWithError(w, e, t) == writeJSON(w, StatusBadRequest, formatError(e, t))

\* Lines 671-673.
RespondWithSuccess(w, status, v) == writeJSON(w, status, v)

\* What an APIFunc does with the ResponseWriter before it returns: up to
\* MaxOps of these steps.
APIOps == {"Set text/html", "Set Content-Length 4",
           "WriteHeader 200", "WriteHeader 204", "WriteHeader 304",
           "WriteHeader 404", "Write page",
           "RespondWithSuccess 201 user", "RespondWithSuccess 204 user",
           "RespondWithSuccess 200 unencodable", "RespondWithError"}
ApplyOp(w, op, t) ==
  CASE op = "Set text/html" -> HeaderSet(w, "text/html")
    [] op = "Set Content-Length 4" -> HeaderSetLength(w, 4)
    [] op = "WriteHeader 200" -> WriteHeader(w, StatusOK)
    [] op = "WriteHeader 204" -> WriteHeader(w, 204)
    [] op = "WriteHeader 304" -> WriteHeader(w, 304)
    [] op = "WriteHeader 404" -> WriteHeader(w, 404)
    [] op = "Write page" -> Write(w, [html |-> "page"])
    [] op = "RespondWithSuccess 201 user" ->
         RespondWithSuccess(w, 201, [user |-> "user123"])
    [] op = "RespondWithSuccess 204 user" ->
         RespondWithSuccess(w, 204, [user |-> "user123"])
    [] op = "RespondWithSuccess 200 unencodable" ->
         RespondWithSuccess(w, StatusOK, [chan |-> TRUE])
    [] op = "RespondWithError" -> RespondWithError(w, "invalid input", t)
RECURSIVE RunOps(_, _, _)
RunOps(w, ops, t) ==
  IF ops = << >> THEN w ELSE RunOps(ApplyOp(w, Head(ops), t), Tail(ops), t)

\* The methods of the requests, and the errors an APIFunc returns: "" is
\* nil, and an APIFunc may return the error RespondWithSuccess gave it.
Methods == {"GET", "HEAD"}
APIErrors == {"", "invalid input", "not found",
              "http: request method or response status code does not allow body"}

\* Lines 613-619: the handler runs f and, when f returned an error, responds
\* with it.
HandlerFunc(f, w, t) ==
  LET w1 == RunOps(w, f.ops, t)
  IN IF f.err # "" THEN RespondWithError(w1, f.err, t) ELSE w1

\* No handler built by HandlerFunc has been called.
NoReply == [called |-> FALSE, f |-> [ops |-> << >>, err |-> ""], at |-> 0,
            w |-> NewResponseWriter("GET")]

\* ------------------------------------------------------ Clerk middlewares
\* A header is the sequence of the values the request carries for one name;
\* a value of Authorization is a sequence of symbols, " " and words without
\* a space, and "" is the empty sequence of symbols.
StatusUnauthorized == 401
Space == " "
Secrets == {"", "whsec_1", "whsec_2"}
Signatures == { << >>, <<"">>, <<"whsec_1">>, <<"whsec_2">>,
                <<"whsec_2", "whsec_1">> }
SessionTokens == {"sess_1", "sess_2"}
Authorizations ==
  { << >>, << << >> >>,
    << <<"Bearer", Space, "sess_1">> >>,
    << <<"Bearer", Space, "sess_2">> >>,
    << <<"Bearer", Space, "sess_1">>, <<"Bearer", Space, "sess_2">> >>,
    << <<"Bearer">> >>,
    << <<"Bearer", Space>> >>,
    << <<"Bearer", Space, Space, "sess_1">> >>,
    << <<"Bearer", Space, "sess_1", Space, "sess_2">> >>,
    << <<"Bearer", Space, "sess_1", Space>> >>,
    << <<Space, "Bearer", Space, "sess_1">> >>,
    << <<"bearer", Space, "sess_1">> >>,
    << <<"Basic", Space, "sess_1">> >>,
    << <<"sess_1">> >>,
    << <<"sess_1", Space, "Bearer">> >> }

\* http.Header.Get: the first value of the header, "" when there is none.
Get(header) == IF header = << >> THEN "" ELSE header[1]
GetValue(header) == IF header = << >> THEN << >> ELSE header[1]

\* strings.Split(s, sep): the pieces of s between the occurrences of sep.
RECURSIVE Split(_, _)
Split(s, sep) ==
  IF Positions(s, sep) = {} THEN <<s>>
  ELSE LET i == FirstIndex(s, sep)
       IN <<SubSeq(s, 1, i - 1)>> \o Split(SubSeq(s, i + 1, Len(s)), sep)

\* http.Error(w, msg, code), and next.ServeHTTP with the session the
\* request context carries ("none" when the middleware adds none).
NoSession == "none"
Error(msg, code) ==
  [status |-> code, body |-> msg, nextCalls |-> 0, session |-> NoSession]
Passed(session) ==
  [status |-> 0, body |-> "", nextCalls |-> 1, session |-> session]

\* clerk.VerifyToken, line 284: the session of a token Clerk holds valid, an
\* error for every other string.
VerifyClerkToken(sessions, token) ==
  IF Len(token) = 1 /\ token[1] \in sessions
  THEN [err |-> FALSE, session |-> token[1]]
  ELSE [err |-> TRUE, session |-> NoSession]

\* ClerkAuthMiddleware that does not look at the scheme of the header.
ClerkAuthAnyScheme(header, sessions) ==
  LET authHeader == GetValue(header)
      parts == Split(authHeader, Space)
  IN IF authHeader = << >> THEN Error("Unauthorized", StatusUnauthorized)
     ELSE IF Len(parts) # 2
     THEN Error("Invalid authorization header", StatusUnauthorized)
     ELSE LET v == VerifyClerkToken(sessions, parts[2])
          IN IF v.err THEN Error("Invalid session", StatusUnauthorized)
             ELSE Passed(v.session)

\* Lines 263-293.
ClerkAuthMiddleware(header, sessions) ==
  LET authHeader == GetValue(header)
      parts == Split(authHeader, Space)
  IN IF authHeader = << >> THEN Error("Unauthorized", StatusUnauthorized)
     ELSE IF Len(parts) # 2 \/ parts[1] # <<"Bearer">>
     THEN Error("Invalid authorization header", StatusUnauthorized)
     ELSE LET v == VerifyClerkToken(sessions, parts[2])
          IN IF v.err THEN Error("Invalid session", StatusUnauthorized)
             ELSE Passed(v.session)

\* ClerkWebhookMiddleware that accepts every signature that is not empty.
ClerkWebhookAnySignature(secret, header) ==
  LET signature == Get(header)
  IN IF secret = ""
     THEN Error("Webhook signing secret not configured", StatusInternalServerError)
     ELSE IF signature = ""
     THEN Error("Invalid clerk webhook signature: ", StatusUnauthorized)
     ELSE Passed(NoSession)

\* Lines 299-323.
ClerkWebhookMiddleware(secret, header) ==
  LET signature == Get(header)
  IN IF secret = ""
     THEN Error("Webhook signing secret not configured", StatusInternalServerError)
     ELSE IF signature = ""
     THEN Error("Invalid clerk webhook signature: ", StatusUnauthorized)
     ELSE IF secret # signature
     THEN Error("Invalid webhook signature: ", StatusUnauthorized)
     ELSE Passed(NoSession)

\* No Clerk middleware has been called and Clerk holds no session.
NoClerkCall == [sessions |-> {}, mw |-> "none", secret |-> "", header |-> << >>,
                seen |-> {}, resp |-> Error("", 0)]

\* ------------------------------------------------------------- the state
VARIABLES
  now,      \* the clock, in ticks
  wakeAt,   \* when the sweeper's time.Sleep(time.Minute) returns
  limiter,  \* the rate.Limiter the middleware was given
  clients,  \* the map of line 213
  mu,       \* the mutex of line 212: "free", "handler" or "sweeper"
  cs,       \* the handler inside the critical section and the line it is at
  waiting,  \* per identity, the handlers blocked in mu.Lock() of line 237
  pending,  \* per identity and decision, the handlers past mu.Unlock()
  left,     \* what the environment may still do
  \* What the step just taken produced, if anything:
  done,     \* the response a handler wrote
  decided,  \* the answer a handler got from the limiter
  \* The history the properties speak about, per identity:
  created,  \* entries stored for it since it was last absent from the map
  evicted,  \* whether the sweeper ever removed its entry
  lastReq,  \* time and outcome of its latest admission check
  fresh,    \* admission checks made at the instant its entry was created
  admitted, \* its requests admitted at the current instant
  solo,     \* the limiter as it would be had no other identity sent requests
  serial    \* the map and the limiter of a middleware that handles each
            \* request in one step, in the order of the lock acquisitions

\* One middleware from each constructor:
VARIABLES
  limiters,    \* the four package-level limiters
  registries,  \* per constructor, the map of its middleware, the time its
               \* sweeper wakes, the requests waiting at mu.Lock() and the
               \* requests past mu.Unlock() whose response is not yet sent
  served,      \* what the handler step just taken did: its constructor, the
               \* decision of its critical section, the status it wrote
  apart        \* per constructor, its limiter as it would be had the other
               \* middlewares handled no request

presets == <<limiters, registries, served, apart>>
NoServed == [by |-> "", ip |-> << >>, status |-> -1, ok |-> FALSE,
             alone |-> FALSE, preset |-> [rate |-> 0, burst |-> 0]]
PresetsAtRest ==
  /\ limiters = [v \in LimiterVars |-> NewLimiter]
  /\ registries = [c \in Constructors |->
                     [clients |-> NoClients, wakeAt |-> Epoch + SweepPeriod,
                      waiting |-> [ip \in IPs |-> 0],
                      answering |-> [ok \in BOOLEAN |-> [alone \in BOOLEAN |-> 0]]]]
  /\ served = NoServed
  /\ apart = [c \in Constructors |-> NewLimiter]

\* The rest of the package, apart from the middleware under study:
VARIABLES
  server,   \* the HTTPServer the builder calls have produced so far
  built,    \* the builder calls made so far, oldest first
  srv,      \* HTTPServer.Start: where it is, its context, its connections
  jwt,      \* the latest call of a JWT service, the token in hand (with
            \* the claims it was generated from, if it was), the time
  reply,    \* the latest call of a handler built by HandlerFunc: its
            \* APIFunc, the time, and the ResponseWriter when it returned
  clerk     \* the sessions Clerk holds valid and the latest call of a Clerk
            \* middleware: its secret, the header it read, the sessions
            \* Clerk held when it verified the token, and its response

library == <<server, built, srv, jwt, reply, clerk>>
LibraryAtRest ==
  /\ server = NoServer
  /\ built = << >>
  /\ srv = NotStarted
  /\ jwt = NoJWTCall
  /\ reply = NoReply
  /\ clerk = NoClerkCall

state == <<now, wakeAt, limiter, clients, mu, cs, waiting, pending, left>>
history == <<created, evicted, lastReq, fresh, admitted, solo>>
middleware == <<state, done, decided, history, serial, presets>>
vars == <<middleware, library>>

NoCS == [ip |-> << >>, pc |-> "none", made |-> FALSE]
NoResponse == [ident |-> << >>, status |-> -1, contentType |-> NoHeader,
               body |-> << >>, nextCalls |-> 0]
NoDecision == [ip |-> << >>, ok |-> FALSE, alone |-> FALSE, seq |-> 0,
               reborn |-> FALSE, waited |-> -1]
NoCheck == [at |-> 0, ok |-> TRUE]
Finished(ident, resp) ==
  [ident |-> ident, status |-> resp.status, contentType |-> resp.contentType,
   body |-> resp.body, nextCalls |-> resp.nextCalls]

\* The state when rateLimiterMiddleware returns: an empty map, a free mutex,
\* the sweeper in its first sleep.
Start(budget) ==
  /\ now = Epoch
  /\ wakeAt = Epoch + SweepPeriod
  /\ limiter = NewLimiter
  /\ clients = NoClients
  /\ mu = "free"
  /\ cs = NoCS
  /\ waiting = [ip \in IPs |-> 0]
  /\ pending = [ip \in IPs |-> [ok \in BOOLEAN |-> 0]]
  /\ left = budget
  /\ done = NoResponse
  /\ decided = NoDecision
  /\ created = [ip \in IPs |-> 0]
  /\ evicted = [ip \in IPs |-> FALSE]
  /\ lastReq = [ip \in IPs |-> NoCheck]
  /\ fresh = [ip \in IPs |-> 0]
  /\ admitted = [ip \in IPs |-> 0]
  /\ solo = [ip \in IPs |-> NewLimiter]
  /\ serial = [clients |-> NoClients, limiter |-> NewLimiter,
               before |-> NewLimiter, expect |-> FALSE]
  /\ PresetsAtRest
  /\ LibraryAtRest

Init ==
  Start([reqs |-> MaxReq, sweeps |-> MaxSweeps, steps |-> MaxSteps,
         sib |-> MaxSibling,
         late |-> MaxLate])

InitIdle ==
  Start([reqs |-> MaxIdleReq, sweeps |-> MaxIdleSweeps, steps |-> 0,
         sib |-> MaxSibling,
         late |-> MaxLate])

InitLock ==
  Start([reqs |-> MaxLockReq, sweeps |-> MaxLockSweeps, steps |-> 0,
         sib |-> MaxSibling,
         late |-> 0])

InitEvict ==
  Start([reqs |-> MaxEvictReq, sweeps |-> MaxEvictSweeps, steps |-> 0, sib |-> 0,
         late |-> MaxLate])

InitRefill ==
  Start([reqs |-> MaxRefillReq, sweeps |-> 0, steps |-> MaxRefillSteps,
         sib |-> MaxSibling,
         late |-> 0])

\* No request is sent to the middleware: the rest of the package is used.
InitLibrary ==
  Start([reqs |-> 0, sweeps |-> 0, steps |-> 0, sib |-> 0,
         late |-> 0])

InitPresets ==
  Start([reqs |-> MaxPresetReq, sweeps |-> MaxPresetSweeps,
         steps |-> MaxPresetSteps, sib |-> 0,
         late |-> 0])

InitBurst ==
  Start([reqs |-> MaxBurstReq, sweeps |-> 0, steps |-> 0, sib |-> 0,
         late |-> 0])

\* ---------------------------------------------------------- the handler
\* Lines 231-235 and the call of mu.Lock(): a request arrives.  When its
\* address cannot be split the handler writes 500 and returns.
Request(addr) ==
  /\ left.reqs > 0
  /\ left' = [left EXCEPT !.reqs = @ - 1]
  /\ LET s == SplitHostPort(addr)
     IN IF s.err # ""
        THEN /\ done' = Finished(<< >>, AddressErrorResponse)
             /\ UNCHANGED waiting
        ELSE /\ waiting' = [waiting EXCEPT ![s.host] = @ + 1]
             /\ done' = NoResponse
  /\ decided' = NoDecision
  /\ UNCHANGED <<now, wakeAt, limiter, clients, mu, cs, pending, history>>
  /\ UNCHANGED <<serial, presets, library>>

\* Lock that does not wait for the mutex to be free.
LockUnguarded(ip) ==
  /\ waiting[ip] > 0
  /\ mu' = "handler"
  /\ cs' = [ip |-> ip, pc |-> "lookup", made |-> FALSE]
  /\ waiting' = [waiting EXCEPT ![ip] = @ - 1]
  /\ done' = NoResponse
  /\ decided' = NoDecision
  /\ UNCHANGED <<now, wakeAt, limiter, clients, pending, left, history>>
  /\ LET cl == Touch(GetOrCreate(serial.clients, ip), ip, now)
         r == Allow(serial.limiter, rateLimit, now)
     IN serial' = [clients |-> cl, limiter |-> r.lim,
                   before |-> serial.limiter, expect |-> r.ok]
  /\ UNCHANGED <<presets, library>>

\* Line 237: mu.Lock() returns.
Lock(ip) ==
  /\ mu = "free"
  /\ waiting[ip] > 0
  /\ mu' = "handler"
  /\ cs' = [ip |-> ip, pc |-> "lookup", made |-> FALSE]
  /\ waiting' = [waiting EXCEPT ![ip] = @ - 1]
  /\ done' = NoResponse
  /\ decided' = NoDecision
  /\ UNCHANGED <<now, wakeAt, limiter, clients, pending, left, history>>
  /\ LET cl == Touch(GetOrCreate(serial.clients, ip), ip, now)
         r == Allow(serial.limiter, rateLimit, now)
     IN serial' = [clients |-> cl, limiter |-> r.lim,
                   before |-> serial.limiter, expect |-> r.ok]
  /\ UNCHANGED <<presets, library>>

\* Lines 238-240.
Lookup ==
  /\ cs.pc = "lookup"
  /\ clients' = GetOrCreate(clients, cs.ip)
  /\ LET stored == cs.ip \notin DOMAIN clients \/ clients'[cs.ip] # clients[cs.ip]
     IN /\ cs' = [cs EXCEPT !.pc = "touch", !.made = stored]
        /\ created' = [created EXCEPT ![cs.ip] = IF stored THEN @ + 1 ELSE @]
  /\ done' = NoResponse
  /\ decided' = NoDecision
  /\ UNCHANGED <<now, wakeAt, limiter, mu, waiting, pending, left,
                 evicted, lastReq, fresh, admitted, solo>>
  /\ UNCHANGED <<serial, presets, library>>

\* Line 241.
TouchEntry ==
  /\ cs.pc = "touch"
  /\ clients' = Touch(clients, cs.ip, now)
  /\ cs' = [cs EXCEPT !.pc = "allow"]
  /\ done' = NoResponse
  /\ decided' = NoDecision
  /\ UNCHANGED <<now, wakeAt, limiter, mu, waiting, pending, left, history>>
  /\ UNCHANGED <<serial, presets, library>>

\* Acquire without the mu.Unlock() of line 243: a rejected request keeps
\* the mutex.
AcquireKeepsLock ==
  /\ cs.pc = "allow"
  /\ LET ip == cs.ip
         r == Allow(limiter, rateLimit, now)
         a == Allow(solo[ip], rateLimit, now)
         seq == IF cs.made THEN 1 ELSE IF fresh[ip] > 0 THEN fresh[ip] + 1 ELSE 0
     IN /\ limiter' = r.lim
        /\ pending' = [pending EXCEPT ![ip][r.ok] = @ + 1]
        /\ decided' = [ip |-> ip, ok |-> r.ok, alone |-> a.ok, seq |-> seq,
                       reborn |-> evicted[ip],
                       waited |-> IF lastReq[ip].ok THEN -1 ELSE now - lastReq[ip].at]
        /\ solo' = [solo EXCEPT ![ip] = a.lim]
        /\ fresh' = [fresh EXCEPT ![ip] = seq]
        /\ admitted' = [admitted EXCEPT ![ip] = IF r.ok THEN @ + 1 ELSE @]
        /\ lastReq' = [lastReq EXCEPT ![ip] = [at |-> now, ok |-> r.ok]]
        /\ mu' = IF r.ok THEN "free" ELSE "handler"
  /\ cs' = NoCS
  /\ done' = NoResponse
  /\ UNCHANGED <<now, wakeAt, clients, waiting, left, created, evicted>>
  /\ UNCHANGED <<serial, presets, library>>

\* Line 242 and the mu.Unlock() of line 243 or 256.
Acquire ==
  /\ cs.pc = "allow"
  /\ LET ip == cs.ip
         r == Allow(limiter, rateLimit, now)
         a == Allow(solo[ip], rateLimit, now)
         seq == IF cs.made THEN 1 ELSE IF fresh[ip] > 0 THEN fresh[ip] + 1 ELSE 0
     IN /\ limiter' = r.lim
        /\ pending' = [pending EXCEPT ![ip][r.ok] = @ + 1]
        /\ decided' = [ip |-> ip, ok |-> r.ok, alone |-> a.ok, seq |-> seq,
                       reborn |-> evicted[ip],
                       waited |-> IF lastReq[ip].ok THEN -1 ELSE now - lastReq[ip].at]
        /\ solo' = [solo EXCEPT ![ip] = a.lim]
        /\ fresh' = [fresh EXCEPT ![ip] = seq]
        /\ admitted' = [admitted EXCEPT ![ip] = IF r.ok THEN @ + 1 ELSE @]
        /\ lastReq' = [lastReq EXCEPT ![ip] = [at |-> now, ok |-> r.ok]]
  /\ mu' = "free"
  /\ cs' = NoCS
  /\ done' = NoResponse
  /\ UNCHANGED <<now, wakeAt, clients, waiting, left, created, evicted>>
  /\ UNCHANGED <<serial, presets, library>>

\* Lines 245-254 or line 257, outside the critical section.
Finish(ip, ok) ==
  /\ pending[ip][ok] > 0
  /\ pending' = [pending EXCEPT ![ip][ok] = @ - 1]
  /\ done' = Finished(ip, Respond(ok, now))
  /\ decided' = NoDecision
  /\ UNCHANGED <<now, wakeAt, limiter, clients, mu, cs, waiting, left, history>>
  /\ UNCHANGED <<serial, presets, library>>

Handler ==
  \/ \E ip \in IPs : Lock(ip)
  \/ Lookup
  \/ TouchEntry
  \/ Acquire
  \/ \E ip \in IPs, ok \in BOOLEAN : Finish(ip, ok)

\* ---------------------------------------------------------- the sweeper
\* SweeperLock that does not wait for the mutex to be free.
SweeperLockUnguarded ==
  /\ now >= wakeAt
  /\ mu # "sweeper"
  /\ mu' = "sweeper"
  /\ done' = NoResponse
  /\ decided' = NoDecision
  /\ UNCHANGED <<now, wakeAt, limiter, clients, cs, waiting, pending, left, history>>
  /\ serial' = [serial EXCEPT !.clients = Sweep(@, now)]
  /\ UNCHANGED <<presets, library>>

\* Lines 217-219: the sleep is over and mu.Lock() returns.
SweeperLock ==
  /\ mu = "free"
  /\ now >= wakeAt
  /\ mu' = "sweeper"
  /\ done' = NoResponse
  /\ decided' = NoDecision
  /\ UNCHANGED <<now, wakeAt, limiter, clients, cs, waiting, pending, left, history>>
  /\ serial' = [serial EXCEPT !.clients = Sweep(@, now)]
  /\ UNCHANGED <<presets, library>>

\* Lines 220-225, and the next time.Sleep(time.Minute) of line 217.
SweeperSweep ==
  /\ mu = "sweeper"
  /\ clients' = Sweep(clients, now)
  /\ mu' = "free"
  /\ wakeAt' = now + SweepPeriod
  /\ LET gone == DOMAIN clients \ DOMAIN clients'
     IN /\ created' = [ip \in IPs |-> IF ip \in gone THEN 0 ELSE created[ip]]
        /\ evicted' = [ip \in IPs |-> evicted[ip] \/ ip \in gone]
        /\ lastReq' = [ip \in IPs |-> IF ip \in gone THEN NoCheck ELSE lastReq[ip]]
  /\ done' = NoResponse
  /\ decided' = NoDecision
  /\ UNCHANGED <<now, limiter, cs, waiting, pending, left, fresh, admitted, solo>>
  /\ UNCHANGED <<serial, presets, library>>

Sweeper == SweeperLock \/ SweeperSweep

\* ------------------------------------------------------ the environment
\* The clock.  A critical section is short against a tick, so no time passes
\* inside one; the sweeper's sleep lasts exactly one period, so the clock
\* does not pass wakeAt before the sweeper has run.
\* Time passes by half a refill interval or a whole one ...
Tick(halves) ==
  /\ mu = "free"
  /\ left.steps >= halves
  /\ now + halves * HalfInterval(rateLimit) <= wakeAt
  /\ now < wakeAt
  /\ now' = now + halves * HalfInterval(rateLimit)
  /\ left' = [left EXCEPT !.steps = @ - halves]
  /\ fresh' = [ip \in IPs |-> 0]
  /\ admitted' = [ip \in IPs |-> 0]
  /\ done' = NoResponse
  /\ decided' = NoDecision
  /\ UNCHANGED <<wakeAt, limiter, clients, mu, cs, waiting, pending,
                 created, evicted, lastReq, solo>>
  /\ UNCHANGED <<serial, presets, library>>

\* ... or up to the end of the sweeper's sleep.
TickToWake ==
  /\ mu = "free"
  /\ now < wakeAt
  /\ left.sweeps > 0
  /\ now' = wakeAt
  /\ left' = [left EXCEPT !.sweeps = @ - 1]
  /\ fresh' = [ip \in IPs |-> 0]
  /\ admitted' = [ip \in IPs |-> 0]
  /\ done' = NoResponse
  /\ decided' = NoDecision
  /\ UNCHANGED <<wakeAt, limiter, clients, mu, cs, waiting, pending,
                 created, evicted, lastReq, solo>>
  /\ UNCHANGED <<serial, presets, library>>

\* time.Sleep(time.Minute) returns after a minute at least, and mu.Lock()
\* of line 219 may wait: the clock passes the end of the sleep, by Lag at a
\* time, before the sweeper has the mutex.  The next sleep starts when the
\* pass is over, so the sweeps fall behind the minute for good.
Late ==
  /\ mu = "free"
  /\ now >= wakeAt
  /\ left.late > 0
  /\ now' = now + Lag
  /\ left' = [left EXCEPT !.late = @ - 1]
  /\ fresh' = [ip \in IPs |-> 0]
  /\ admitted' = [ip \in IPs |-> 0]
  /\ done' = NoResponse
  /\ decided' = NoDecision
  /\ UNCHANGED <<wakeAt, limiter, clients, mu, cs, waiting, pending,
                 created, evicted, lastReq, solo>>
  /\ UNCHANGED <<serial, presets, library>>

\* k calls of Allow() at time t, one after the other: the limiter they leave.
RECURSIVE AllowTimes(_, _, _, _)
AllowTimes(lim, p, t, k) ==
  IF k = 0 THEN lim ELSE AllowTimes(Allow(lim, p, t).lim, p, t, k - 1)

\* The limiter is the package-level variable of line 53, shared by every
\* middleware RateLimitStrict builds: the requests another one of them
\* handles, one or a whole burst, call Allow() on it.
Sibling(k) ==
  /\ left.sib > 0
  /\ limiter' = AllowTimes(limiter, rateLimit, now, k)
  /\ limiter' # limiter
  /\ left' = [left EXCEPT !.sib = @ - 1]
  /\ solo' = [ip \in IPs |-> AllowTimes(solo[ip], rateLimit, now, k)]
  /\ done' = NoResponse
  /\ decided' = NoDecision
  /\ UNCHANGED <<now, wakeAt, clients, mu, cs, waiting, pending,
                 created, evicted, lastReq, fresh, admitted>>
  /\ serial' =
       IF mu = "handler"
       THEN LET b == AllowTimes(serial.before, rateLimit, now, k)
                r == Allow(b, rateLimit, now)
            IN [serial EXCEPT !.before = b, !.limiter = r.lim, !.expect = r.ok]
       ELSE [serial EXCEPT !.limiter = AllowTimes(@, rateLimit, now, k)]
  /\ UNCHANGED <<presets, library>>

Environment ==
  \/ \E halves \in {1, 2} : Tick(halves)
  \/ TickToWake
  \/ Late
  \/ \E k \in {1, rateLimit.burst} : Sibling(k)

Next ==
  \/ \E addr \in Addrs : Request(addr)
  \/ Handler
  \/ Sweeper
  \/ Environment

\* One client, and requests without an identity, over a long time in which
\* the clock is read at the sweeper's wake-up times.
NextIdle ==
  \/ \E addr \in IdleAddrs : Request(addr)
  \/ Handler
  \/ Sweeper
  \/ TickToWake
  \/ Late
  \/ \E k \in {1, rateLimit.burst} : Sibling(k)

\* Two clients, and requests without an identity, with another middleware
\* that empties the shared bucket, in the first minutes of the middleware:
\* no entry is old enough for a sweep to remove it, on time or late.
NextPair ==
  \/ \E addr \in PairAddrs : Request(addr)
  \/ Handler
  \/ Sweeper
  \/ TickToWake
  \/ Sibling(rateLimit.burst)

\* Two clients, and requests without an identity, over the time it takes an
\* entry to expire.
NextEvict ==
  \/ \E addr \in PairAddrs : Request(addr)
  \/ Handler
  \/ Sweeper
  \/ TickToWake
  \/ Late

\* Requests within the sweeper's first sleep, at times half a refill
\* interval apart.
NextRefill ==
  \/ \E addr \in BurstAddrs : Request(addr)
  \/ Handler
  \/ \E halves \in {1, 2} : Tick(halves)
  \/ \E k \in {1, rateLimit.burst} : Sibling(k)

\* More requests than the burst, of two identities, at one instant.
NextBurst ==
  \/ \E addr \in BurstAddrs : Request(addr)
  \/ Handler

\* The handler of the middleware of constructor c, in the three parts other
\* goroutines can run between.  Lines 231-235 and the call of mu.Lock(): a
\* request arrives; when its address cannot be split the handler writes 500
\* and returns.
Arrive(c, addr) ==
  /\ left.reqs > 0
  /\ left' = [left EXCEPT !.reqs = @ - 1]
  /\ LET s == SplitHostPort(addr)
     IN IF s.err # ""
        THEN /\ served' = [NoServed EXCEPT !.by = c,
                                           !.status = AddressErrorResponse.status]
             /\ UNCHANGED registries
        ELSE /\ registries' = [registries EXCEPT ![c].waiting[s.host] = @ + 1]
             /\ served' = NoServed
  /\ UNCHANGED <<now, wakeAt, limiter, clients, mu, cs, waiting, pending,
                 done, decided, history, serial,
                 limiters, apart, library>>

\* Lines 237-243 or 237-256: the critical section, from the return of
\* mu.Lock() to mu.Unlock().  The mutex keeps every other handler of the
\* middleware and its sweeper out, and Allow() locks the limiter itself.
Enter(c, ip) ==
  /\ registries[c].waiting[ip] > 0
  /\ LET v == LimiterOf(c)
         r == Allow(limiters[v], Preset(v), now)
         a == Allow(apart[c], Preset(v), now)
     IN /\ registries' =
             [registries EXCEPT
                ![c].clients = Touch(GetOrCreate(@, ip), ip, now),
                ![c].waiting[ip] = @ - 1,
                ![c].answering[r.ok][a.ok] = @ + 1]
        /\ limiters' = [limiters EXCEPT ![v] = r.lim]
        /\ apart' = [apart EXCEPT ![c] = a.lim]
        /\ served' = [by |-> c, ip |-> ip, status |-> -1,
                      ok |-> r.ok, alone |-> a.ok, preset |-> Preset(v)]
  /\ UNCHANGED <<state, done, decided, history, serial, library>>

\* Lines 245-254 or line 257, after the unlock: the response.
Answer(c, ok, alone) ==
  /\ registries[c].answering[ok][alone] > 0
  /\ registries' = [registries EXCEPT ![c].answering[ok][alone] = @ - 1]
  /\ served' = [by |-> c, ip |-> << >>, status |-> Respond(ok, now).status,
                ok |-> ok, alone |-> alone, preset |-> Preset(LimiterOf(c))]
  /\ UNCHANGED <<state, done, decided, history, serial,
                 limiters, apart, library>>

\* Lines 217-226 for the middleware of constructor c, in one step.
SweepRegistry(c) ==
  /\ now >= registries[c].wakeAt
  /\ registries' = [registries EXCEPT ![c].clients = Sweep(@, now),
                                      ![c].wakeAt = now + SweepPeriod]
  /\ served' = NoServed
  /\ UNCHANGED <<state, done, decided, history, serial,
                 limiters, apart, library>>

\* Time passes: one refill interval of a preset, or up to the time the
\* sweepers wake.
ElapseInterval(v) ==
  /\ left.steps > 0
  /\ \A c \in Constructors : now + RefillInterval(Preset(v)) <= registries[c].wakeAt
  /\ now' = now + RefillInterval(Preset(v))
  /\ left' = [left EXCEPT !.steps = @ - 1]
  /\ served' = NoServed
  /\ UNCHANGED <<wakeAt, limiter, clients, mu, cs, waiting, pending,
                 done, decided, history, serial,
                 limiters, registries, apart, library>>

\* time.Sleep(time.Minute), line 218, returns a minute after the call or
\* later, and the sweeper may then wait at mu.Lock(): the next sweep runs on
\* time or late.
ElapseToWake ==
  /\ left.sweeps > 0
  /\ \A c \in Constructors : now < registries[c].wakeAt
  /\ \E c \in Constructors, late \in {0, Lag} :
       /\ \A d \in Constructors : registries[c].wakeAt <= registries[d].wakeAt
       /\ now' = registries[c].wakeAt + late
  /\ left' = [left EXCEPT !.sweeps = @ - 1]
  /\ served' = NoServed
  /\ UNCHANGED <<wakeAt, limiter, clients, mu, cs, waiting, pending,
                 done, decided, history, serial,
                 limiters, registries, apart, library>>

NextPresets ==
  \/ \E c \in Constructors, addr \in IdleAddrs : Arrive(c, addr)
  \/ \E c \in Constructors, ip \in IPs : Enter(c, ip)
  \/ \E c \in Constructors, ok \in BOOLEAN, alone \in BOOLEAN : Answer(c, ok, alone)
  \/ \E c \in Constructors : SweepRegistry(c)
  \/ \E v \in LimiterVars : ElapseInterval(v)
  \/ ElapseToWake

\* ------------------------------------------------- the HTTPServer builders
\* A program calls NewServer and then chains builder methods on the result.
Construct(address) ==
  /\ server' = NewServer(address)
  /\ built' = <<Call("NewServer", address)>>
  /\ UNCHANGED <<middleware, clerk, srv, jwt, reply>>

Chain(op, arg, result) ==
  /\ built # << >>
  /\ Len(built) < MaxChain
  /\ server' = result
  /\ built' = Append(built, Call(op, arg))
  /\ UNCHANGED <<middleware, clerk, srv, jwt, reply>>

NextServer ==
  \/ \E a \in Ports : Construct(a)
  \/ \E d \in Durations : Chain("WithWriteTimeout", d, WithWriteTimeout(server, d))
  \/ \E d \in Durations : Chain("WithReadTimeout", d, WithReadTimeout(server, d))
  \/ \E d \in Durations : Chain("WithIdleTimeout", d, WithIdleTimeout(server, d))
  \/ \E h \in Handlers : Chain("WithHandler", h, WithHandler(server, h))

\* -------------------------------------------------------- HTTPServer.Start
\* Lines 870-890: Start builds the http.Server, reads the grace period from
\* the flag, starts ListenAndServe in a goroutine and blocks on ctx.Done().
StartServer(wait) ==
  /\ srv.pc = "idle"
  /\ srv' = [srv EXCEPT !.pc = "serving", !.wait = wait]
  /\ UNCHANGED <<middleware, clerk, server, built, jwt, reply>>

\* Lines 886-889: ListenAndServe fails and the goroutine panics.
ListenPanic ==
  /\ srv.pc = "serving"
  /\ srv.conns = 0
  /\ ~srv.ctxDone
  /\ srv' = [srv EXCEPT !.pc = "crashed"]
  /\ UNCHANGED <<middleware, clerk, server, built, jwt, reply>>

\* A client opens a connection and sends a request; a request is answered and
\* its connection closed.
Connect ==
  /\ srv.pc = "serving"
  /\ srv.conns < MaxConns
  /\ srv' = [srv EXCEPT !.conns = @ + 1]
  /\ UNCHANGED <<middleware, clerk, server, built, jwt, reply>>

Disconnect ==
  /\ srv.pc \in {"serving", "shutdown"}
  /\ srv.conns > 0
  /\ srv' = [srv EXCEPT !.conns = @ - 1]
  /\ UNCHANGED <<middleware, clerk, server, built, jwt, reply>>

\* The caller cancels the context passed to Start.
Cancel ==
  /\ srv.pc = "serving"
  /\ ~srv.ctxDone
  /\ srv' = [srv EXCEPT !.ctxDone = TRUE, !.cancelAt = srv.clock]
  /\ UNCHANGED <<middleware, clerk, server, built, jwt, reply>>

\* Line 892: <-ctx.Done() returns; lines 893-898: Shutdown is called with a
\* context derived from the cancelled one.
BeginShutdown ==
  /\ srv.pc = "serving"
  /\ srv.ctxDone
  /\ srv' = [srv EXCEPT !.pc = "shutdown"]
  /\ UNCHANGED <<middleware, clerk, server, built, jwt, reply>>

\* Lines 898-902: Shutdown returns and os.Exit(0) ends the process with the
\* connections still in flight.
EndShutdown ==
  /\ srv.pc = "shutdown"
  /\ LET cx == WithTimeout(srv.ctxDone, srv.clock, srv.wait)
         err == Shutdown(cx, srv.conns, srv.clock)
     IN /\ err # "waiting"
        /\ srv' = [srv EXCEPT !.pc = "exited", !.err = err, !.cut = srv.conns]
  /\ UNCHANGED <<middleware, clerk, server, built, jwt, reply>>

\* A second passes, unless Shutdown is about to return.
Pass ==
  /\ srv.pc \in {"serving", "shutdown"}
  /\ srv.clock < MaxUptime
  /\ srv.pc = "shutdown" =>
       Shutdown(WithTimeout(srv.ctxDone, srv.clock, srv.wait), srv.conns, srv.clock)
         = "waiting"
  /\ srv' = [srv EXCEPT !.clock = @ + 1]
  /\ UNCHANGED <<middleware, clerk, server, built, jwt, reply>>

NextStart ==
  \/ \E w \in GraceFlags : StartServer(w)
  \/ ListenPanic
  \/ Connect
  \/ Disconnect
  \/ Cancel
  \/ BeginShutdown
  \/ EndShutdown
  \/ Pass

\* --------------------------------------------------------------- tools.JWT
\* A service generates a token.
\* The second changes iatLate times between the readings of lines 93 and
\* 94 and nbfLate times between those of lines 94 and 95; a call that
\* panics at line 88 reads no clock.
GenerateToken(tkn, claims, expiration, iatLate, nbfLate) ==
  /\ expiration = Nil => iatLate = 0 /\ nbfLate = 0
  /\ (jwt.clock % (15 * 60)) + iatLate + nbfLate <= MaxSeconds
  /\ LET r == Generate(tkn, claims, expiration, jwt.clock,
                       jwt.clock + iatLate, jwt.clock + iatLate + nbfLate)
     IN jwt' = [jwt EXCEPT !.op = "Generate", !.svc = tkn, !.arg = expiration,
                           !.clock = @ + iatLate + nbfLate,
                           !.token = r.token,
                           !.minted = IF r.panic THEN << >> ELSE <<claims>>,
                           !.out = [panic |-> r.panic, err |-> r.err,
                                    claims |-> NoJWTClaims]]
  /\ UNCHANGED <<middleware, clerk, server, built, srv, reply>>

\* A token comes from elsewhere: any algorithm, key and issuer, valid from
\* now or from the next quarter hour on, for a quarter hour.
ReceiveToken(alg, key, iss, delay) ==
  /\ jwt' = [jwt EXCEPT !.op = "Receive",
                        !.token = [alg |-> alg, key |-> key,
                                   exp |-> jwt.clock + delay + 15 * 60,
                                   iat |-> jwt.clock, nbf |-> jwt.clock + delay,
                                   iss |-> iss, sub |-> "user@example.com",
                                   jti |-> "user123"],
                        !.minted = << >>,
                        !.out = NoJWTCall.out]
  /\ UNCHANGED <<middleware, clerk, server, built, srv, reply>>

\* A service verifies the token in hand.
VerifyToken(tkn) ==
  /\ jwt.token # NoToken
  /\ LET r == Verify(tkn, jwt.token, jwt.clock)
     IN jwt' = [jwt EXCEPT !.op = "Verify", !.svc = tkn,
                           !.out = [panic |-> FALSE, err |-> r.err,
                                    claims |-> r.claims]]
  /\ UNCHANGED <<middleware, clerk, server, built, srv, reply>>

\* A quarter of an hour passes.
Quarter ==
  /\ jwt.clock < MaxQuarters * 15 * 60
  /\ jwt' = [jwt EXCEPT !.op = "none", !.clock = @ + 15 * 60, !.out = NoJWTCall.out]
  /\ UNCHANGED <<middleware, clerk, server, built, srv, reply>>

NextJWT ==
  \/ \E tkn \in JWTServices, id \in UserIDs, email \in Emails, e \in Expirations :
       \E iatLate \in {0, 1}, nbfLate \in {0, 1} :
         GenerateToken(tkn, [ID |-> id, Email |-> email], e, iatLate, nbfLate)
  \/ \E alg \in Algorithms, key \in Keys, iss \in Issuers, delay \in {0, 15 * 60} :
       ReceiveToken(alg, key, iss, delay)
  \/ \E tkn \in JWTServices : VerifyToken(tkn)
  \/ Quarter

\* ------------------------------------------------------------ HandlerFunc
\* The server calls HandlerFunc(f) with a new ResponseWriter.  The handler
\* keeps nothing from one call to the next: a behaviour is one call.
ServeAPI(method, ops, err, t) ==
  /\ ~reply.called
  /\ LET f == [ops |-> ops, err |-> err]
     IN reply' = [called |-> TRUE, f |-> f, at |-> t,
                  w |-> HandlerFunc(f, NewResponseWriter(method), t)]
  /\ UNCHANGED <<middleware, clerk, server, built, srv, jwt>>

\* ------------------------------------------------------ Clerk middlewares
\* Clerk starts to hold a session token valid, or stops (sign-in, sign-out,
\* expiry): what clerk.VerifyToken answers changes.
SignIn(token) ==
  /\ token \notin clerk.sessions
  /\ clerk' = [(IF clerk.mw = "verified" THEN clerk ELSE NoClerkCall)
                 EXCEPT !.sessions = clerk.sessions \cup {token}]
  /\ UNCHANGED <<middleware, server, built, srv, jwt, reply>>

SignOut(token) ==
  /\ token \in clerk.sessions
  /\ clerk' = [(IF clerk.mw = "verified" THEN clerk ELSE NoClerkCall)
                 EXCEPT !.sessions = clerk.sessions \ {token}]
  /\ UNCHANGED <<middleware, server, built, srv, jwt, reply>>

\* One request through ClerkAuthMiddleware(clerk)(next), lines 263-284: the
\* header is read and split, and clerk.VerifyToken, a call to Clerk that
\* takes its time, has answered from the sessions Clerk held then.
VerifyAuth(header) ==
  /\ clerk.mw # "verified"
  /\ clerk' = [sessions |-> clerk.sessions, mw |-> "verified", secret |-> "",
               header |-> header, seen |-> clerk.sessions,
               resp |-> NoClerkCall.resp]
  /\ UNCHANGED <<middleware, server, built, srv, jwt, reply>>

\* Lines 285-291: the answer of the handler, by when Clerk may hold other
\* sessions than those it verified against.
AnswerAuth ==
  /\ clerk.mw = "verified"
  /\ clerk' = [clerk EXCEPT !.mw = "auth",
                            !.resp = ClerkAuthMiddleware(clerk.header, clerk.seen)]
  /\ UNCHANGED <<middleware, server, built, srv, jwt, reply>>

\* One request through ClerkWebhookMiddleware(clerk, secret)(next).
ServeWebhook(secret, header) ==
  /\ clerk.mw # "verified"
  /\ clerk' = [sessions |-> clerk.sessions, mw |-> "webhook", secret |-> secret,
               header |-> header, seen |-> {},
               resp |-> ClerkWebhookMiddleware(secret, header)]
  /\ UNCHANGED <<middleware, server, built, srv, jwt, reply>>

NextClerk ==
  \/ \E token \in SessionTokens : SignIn(token)
  \/ \E token \in SessionTokens : SignOut(token)
  \/ \E header \in Authorizations : VerifyAuth(header)
  \/ AnswerAuth
  \/ \E secret \in Secrets, header \in Signatures : ServeWebhook(secret, header)

NextAPI ==
  /\ ~reply.called
  /\ \E n \in 0..MaxOps : \E ops \in [1..n -> APIOps] :
       \E method \in Methods, err \in APIErrors, t \in 1..MaxCallTime :
         ServeAPI(method, ops, err, t)

Spec == Init /\ [][Next]_vars
SpecPresets == InitPresets /\ [][NextPresets]_vars
SpecAPI == InitLibrary /\ [][NextAPI]_vars
SpecClerk == InitLibrary /\ [][NextClerk]_vars
SpecJWT == InitLibrary /\ [][NextJWT]_vars
SpecStart == InitLibrary /\ [][NextStart]_vars
SpecServer == InitLibrary /\ [][NextServer]_vars
SpecIdle == InitIdle /\ [][NextIdle]_vars
SpecPair == InitLock /\ [][NextPair]_vars
SpecEvict == InitEvict /\ [][NextEvict]_vars
SpecRefill == InitRefill /\ [][NextRefill]_vars
\* The middleware under the scheduling of the Go runtime: a goroutine that
\* can run does run, which is weak fairness of the steps inside a critical
\* section; and sync.Mutex hands the mutex to a waiter that has waited for
\* more than a millisecond (starvation mode), which is strong fairness of
\* each mu.Lock().
SpecLock ==
  /\ InitLock /\ [][NextPair]_vars
  /\ WF_vars(Lookup) /\ WF_vars(TouchEntry) /\ WF_vars(Acquire)
  /\ WF_vars(SweeperSweep)
  /\ SF_vars(SweeperLock)
  /\ \A ip \in IPs : SF_vars(Lock(ip))
SpecBurst == InitBurst /\ [][NextBurst]_vars

\* ============================================================ properties

\* C1 (as claimed): every answer the limiter gives a client equals the answer
\* it would give had no other client of this middleware sent any request.
C1_NonInterference ==
  decided.ip \in IPs => decided.ok = decided.alone

\* C2 (as claimed): of the requests a first-seen client issues at the instant
\* its entry is created, the first `burst` are admitted and the next one is
\* rejected.
C2_FreshClientBurst ==
  decided.seq > 0 =>
    /\ decided.seq <= rateLimit.burst => decided.ok
    /\ decided.seq = rateLimit.burst + 1 => ~decided.ok

\* C3 (as claimed): a client whose latest request was rejected and that sends
\* its next request 1/rate seconds later, nothing in between, is admitted.
C3_RetryAfterRefill ==
  decided.waited = RefillInterval(rateLimit) => decided.ok

\* C4 (as claimed): a client whose entry the sweeper evicted gets a full burst
\* again: the first `burst` requests it issues at the instant its entry is
\* created anew are all admitted.
C4_FullBurstAfterEviction ==
  (decided.reborn /\ decided.seq > 0 /\ decided.seq <= rateLimit.burst)
    => decided.ok

\* C5: whatever the interleaving of concurrent requests of one identity, one
\* entry is stored for it, the entry holds the limiter the middleware was
\* given, and at most `burst` of the requests are admitted at one instant.
C5_OneEntryAtMostBurst ==
  \A ip \in IPs :
    /\ created[ip] <= 1
    /\ ip \in DOMAIN clients <=> created[ip] = 1
    /\ ip \in DOMAIN clients => clients[ip].limiter = "rateLimit"
    /\ admitted[ip] <= rateLimit.burst

\* C5 witness: more handlers of one identity than the burst are in flight at
\* once; `burst` of them were admitted and the others rejected.
C5_Witness ==
  \E ip \in IPs :
    /\ created[ip] = 1
    /\ pending[ip][TRUE] = rateLimit.burst
    /\ pending[ip][FALSE] >= 1
    /\ admitted[ip] = rateLimit.burst

\* C6: a handler that returns after an admitted check has called next once
\* and written nothing itself; one that returns after a rejected check has
\* written 429 and has not called next.
C6_ForwardOrReject ==
  [][\A ip \in IPs, ok \in BOOLEAN :
       pending'[ip][ok] = pending[ip][ok] - 1 =>
         /\ done'.ident = ip
         /\ ok => (done'.nextCalls = 1 /\ done'.status = 0)
         /\ ~ok => (done'.nextCalls = 0 /\ done'.status = StatusTooManyRequests)]_vars

\* C6 witness: a rejected request has been answered.
C6_Witness ==
  /\ done.ident \in IPs
  /\ done.status = StatusTooManyRequests
  /\ done.nextCalls = 0

\* C7: a request whose address cannot be split is answered 500, never 429;
\* next is not called, the map and the limiter are left as they were, and no
\* handler goes on to the lock.
C7_AddressFailure ==
  [][(left'.reqs = left.reqs - 1 /\ waiting' = waiting) =>
       /\ done'.status = StatusInternalServerError
       /\ done'.status # StatusTooManyRequests
       /\ done'.nextCalls = 0
       /\ clients' = clients
       /\ limiter' = limiter
       /\ pending' = pending /\ mu' = mu /\ cs' = cs]_vars

\* C7 witness: such a request has been answered while an entry is tracked.
C7_Witness ==
  /\ done.status = StatusInternalServerError
  /\ done.ident = << >>
  /\ DOMAIN clients # {}

\* C8 (as claimed): every 429 declares a JSON content type and carries the
\* Message with status "Request Failed", a body text, locked = true and a
\* timestamp.
C8_RejectionIsJson ==
  done.status = StatusTooManyRequests =>
    /\ done.contentType = "application/json"
    /\ Len(done.body) = 1
    /\ done.body[1].status = "Request Failed"
    /\ done.body[1].body # ""
    /\ done.body[1].locked = TRUE
    /\ done.body[1].timestamp = now

\* C9 (as claimed): an entry never outlives the latest admission check of
\* its client by more than the idle threshold plus one sweep period, whether
\* or not any request arrives in the meantime.
C9_EvictedInTime ==
  \A ip \in DOMAIN clients :
    lastReq[ip].at > 0 => now - lastReq[ip].at <= IdleThreshold + SweepPeriod

\* C9 (amended): no entry survives a sweep that runs more than the idle
\* threshold after the latest admission check of its client, whether or not
\* any request arrives in the meantime: the latest sweep, which began the
\* sleep that ends at wakeAt, found every entry still tracked no older than
\* the threshold.
C9_EvictedBySweepPastThreshold ==
  \A ip \in DOMAIN clients :
    lastReq[ip].at > 0 =>
      (wakeAt - SweepPeriod) - lastReq[ip].at <= IdleThreshold

\* C9 witness: a client sent one request, nothing else was ever received, and
\* a sweep that ran late, more than the idle threshold plus a sweep period
\* after the request, has just removed the entry.
C9_Witness ==
  \E ip \in IPs :
    /\ evicted[ip]
    /\ ip \notin DOMAIN clients
    /\ left.reqs = MaxEvictReq - 1
    /\ now > Epoch + IdleThreshold + SweepPeriod
    /\ wakeAt = now + SweepPeriod

\* C10: the sweeper removes an entry only when the latest admission check of
\* its client, admitted or rejected, lies more than the idle threshold back.
C10_ActiveNeverEvicted ==
  [][\A ip \in IPs :
       (ip \in DOMAIN clients /\ ip \notin DOMAIN clients') =>
         now - lastReq[ip].at > IdleThreshold]_vars

\* C10 witness: a sweep has just passed over an entry whose client was last
\* seen, and rejected, exactly the idle threshold ago; the entry is still
\* there.
C10_Witness ==
  \E ip \in DOMAIN clients :
    /\ ~lastReq[ip].ok
    /\ now - lastReq[ip].at = IdleThreshold
    /\ mu = "free"
    /\ wakeAt = now + SweepPeriod

\* C11: a request handled by the middleware of one constructor leaves the
\* map and the limiter of every other constructor's middleware as they were,
\* and every answer a middleware gives is the answer it would give had the
\* other middlewares handled no request.
C11_PresetsIndependent ==
  [][\A c \in Constructors :
       served'.by = c =>
         /\ \A d \in Constructors \ {c} :
              /\ registries'[d] = registries[d]
              /\ limiters'[LimiterOf(d)] = limiters[LimiterOf(d)]
         /\ served'.ok = served'.alone]_vars

\* C11 witness: the middlewares of two presets have each handled a request of
\* the same client, at different times, and each tracks it on its own.
C11_Witness ==
  \E c, d \in Constructors, ip \in IPs :
    /\ c # d
    /\ ip \in DOMAIN registries[c].clients
    /\ ip \in DOMAIN registries[d].clients
    /\ registries[c].clients[ip].lastSeen # registries[d].clients[ip].lastSeen
    /\ served.by = d

\* C14: the limiter a constructor's middleware asks has the documented rate
\* and burst, and never holds more tokens than the documented burst.
C14_PresetParameters ==
  /\ served.by \in Constructors /\ served.status # StatusInternalServerError
       => served.preset = Documented(served.by)
  /\ \A c \in Constructors :
       limiters[LimiterOf(c)].tokens <= Documented(c).burst * OneToken

\* C14 witness: the web middleware admitted the first request it got and its
\* limiter is left with the burst less one token.
C14_Witness ==
  /\ served.by = "RateLimitWeb"
  /\ served.ok
  /\ limiters["RateLimitUserWebAPI"].tokens = (30 - 1) * OneToken

\* C13 (as claimed): a request a client sends more than 1/rate seconds after
\* its previous one, or as its first, is admitted.
C13_BelowRateNeverRejected ==
  [][\A ip \in IPs :
       (decided'.ip = ip /\ now - lastReq[ip].at > RefillInterval(rateLimit))
         => decided'.ok]_vars

\* C15 (as claimed): after NewServer and any chain of builder calls the server
\* has the address NewServer gave it, and each of its other settings is the
\* argument of the latest builder call for that setting, or the default of
\* NewServer when there was none.
C15_BuildersCompose ==
  built # << >> =>
    LET Latest(op, default) ==
          LET at == {i \in 1..Len(built) : built[i].op = op}
          IN IF at = {} THEN default
             ELSE built[CHOOSE i \in at : \A j \in at : j <= i].arg
    IN /\ server.Address = <<Colon, built[1].arg>>
       /\ server.WriteTimeout = Latest("WithWriteTimeout", DefaultWriteTimeout)
       /\ server.ReadTimeout = Latest("WithReadTimeout", DefaultReadTimeout)
       /\ server.IdleTimeout = Latest("WithIdleTimeout", DefaultIdleTimeout)
       /\ server.Handler = Latest("WithHandler", "nil")

\* C16 (as claimed): Start goes on to the shutdown only once its context is
\* cancelled, and the process ends with connections still in flight only
\* when the grace period has passed since the cancellation.
C16_GracefulShutdown ==
  /\ srv.pc \in {"shutdown", "exited"} => srv.ctxDone
  /\ (srv.pc = "exited" /\ srv.cut > 0) => srv.clock - srv.cancelAt >= srv.wait

\* C17 (as claimed): Generate called with nil, or with a pointer to e >= 0,
\* returns without a panic and without an error a token that expires 15
\* minutes, or e minutes, after it was issued.
C17_GenerateExpiry ==
  (jwt.op = "Generate" /\ (jwt.arg = Nil \/ jwt.arg[1] >= 0)) =>
    /\ ~jwt.out.panic
    /\ jwt.out.err = ""
    /\ jwt.token.exp - jwt.token.iat =
         (IF jwt.arg = Nil THEN 15 ELSE jwt.arg[1]) * 60

\* C18 (as claimed): Verify returns an error and empty claims for a token
\* signed with another key or a method that is not HMAC, an expired one, one
\* not yet valid, and one whose issuer is not the verifying service's.
C18_VerifyRejects ==
  (/\ jwt.op = "Verify"
   /\ \/ jwt.token.key # jwt.svc.SigningKey
      \/ jwt.token.alg \notin HMACMethods
      \/ jwt.clock >= jwt.token.exp
      \/ jwt.clock < jwt.token.nbf
      \/ jwt.token.iss # jwt.svc.Issuer)
    => (jwt.out.err # "" /\ jwt.out.claims = NoJWTClaims)

C20_LockOrderSerial ==
  /\ decided.ip \in IPs => decided.ok = serial.expect
  /\ mu = "free" => (clients = serial.clients /\ limiter = serial.limiter)

\* C20 witness: a handler got its answer while another request of the same
\* client was blocked at the lock, after the sweeper had run.
C20_Witness ==
  /\ decided.ip \in IPs
  /\ waiting[decided.ip] > 0
  /\ now > Epoch

\* C21: eviction is safe against concurrent requests.  A handler that has
\* looked its entry up still finds it in the registry when it touches it and
\* when it acquires from it; the sweeper never holds the mutex while a
\* handler is between its lookup and its acquire; and the entry a handler
\* stored itself is the single entry created for its identity since the
\* last removal.
C21_EvictionSafe ==
  /\ cs.pc \in {"touch", "allow"} => cs.ip \in DOMAIN clients
  /\ cs.pc = "allow" => clients[cs.ip].lastSeen = now
  /\ mu = "sweeper" => cs = NoCS
  /\ cs.pc \in {"touch", "allow"} /\ cs.made => created[cs.ip] = 1

\* A request that ran after its identity's entry was removed has stored a
\* fresh entry, touched it and is about to acquire from it.
C21_Witness ==
  \E ip \in IPs :
    /\ evicted[ip]
    /\ cs = [ip |-> ip, pc |-> "allow", made |-> TRUE]
    /\ clients[ip].lastSeen = now

\* C22: the mutex is held exactly between a Lock and the matching Unlock:
\* by a handler while it is between lookup and acquire and by the sweeper
\* during its pass, never by a handler whose response is being written or
\* whose next handler runs; whoever holds it has an enabled step; and every
\* request that waits for the mutex gets it, as does every sweep that is
\* due.
C22_LockHeldBriefly ==
  /\ [](/\ mu = "handler" <=> cs.pc \in {"lookup", "touch", "allow"}
        /\ mu \in {"free", "sweeper"} <=> cs = NoCS
        /\ mu # "free" =>
             ENABLED (Lookup \/ TouchEntry \/ Acquire \/ SweeperSweep))
  /\ \A ip \in IPs : (waiting[ip] > 0) ~> (waiting[ip] = 0)
  /\ (now >= wakeAt) ~> (now < wakeAt)

\* A rejection is being written and a request waits for the mutex while the
\* sweeper holds it.
C22_Witness ==
  \E ip \in IPs :
    /\ pending[ip][FALSE] > 0
    /\ waiting[ip] > 0
    /\ mu = "sweeper"

\* C23: the bucket of every tracked client holds between zero tokens and
\* the burst, as stored and as refilled up to the current time.
C23_TokensWithinCapacity ==
  \A ip \in DOMAIN clients :
    /\ clients[ip].limiter = "rateLimit"
    /\ 0 <= limiter.tokens /\ limiter.tokens <= Capacity(rateLimit)
    /\ 0 <= Advance(limiter, rateLimit, now)
    /\ Advance(limiter, rateLimit, now) <= Capacity(rateLimit)

\* A tracked client was rejected on an empty bucket after a sweep and a
\* refill had happened.
C23_Witness ==
  \E ip \in DOMAIN clients :
    /\ decided.ip = ip /\ ~decided.ok
    /\ limiter.tokens < OneToken
    /\ limiter.last > Epoch
    /\ wakeAt > Epoch + SweepPeriod

\* C24: every admission check stamps the entry of the client it is for
\* with the time of the check, whether the request is admitted or rejected,
\* and no step of a handler changes the lastSeen of another client.
C24_CheckStampsOwnEntry ==
  [][/\ decided'.ip \in IPs => clients'[decided'.ip].lastSeen = now'
     /\ mu = "handler" =>
          \A other \in DOMAIN clients \ {cs.ip} :
            /\ other \in DOMAIN clients'
            /\ clients'[other].lastSeen = clients[other].lastSeen]_vars

\* A client is rejected while the registry holds another client that was
\* last seen earlier.
C24_Witness ==
  \E ip \in DOMAIN clients, other \in DOMAIN clients :
    /\ decided.ip = ip /\ ~decided.ok
    /\ other # ip
    /\ clients[ip].lastSeen = now
    /\ clients[other].lastSeen < now

\* C25: a sweep removes exactly the entries last seen more than five
\* minutes before it, and leaves every other entry, and the bucket, as they
\* were.
C25_SweepRemovesExpired ==
  [][mu = "sweeper" /\ mu' = "free" =>
       /\ DOMAIN clients' =
            {ip \in DOMAIN clients : now - clients[ip].lastSeen <= 5 * Minute}
       /\ \A ip \in DOMAIN clients' : clients'[ip] = clients[ip]
       /\ limiter' = limiter]_vars

\* A sweep has just removed one client and kept another that was last seen
\* exactly five minutes before it.
C25_Witness ==
  \E ip \in IPs, other \in DOMAIN clients :
    /\ ip \notin DOMAIN clients /\ evicted[ip]
    /\ now - clients[other].lastSeen = 5 * Minute
    /\ mu = "free" /\ wakeAt = now + SweepPeriod

\* C26: no step of a request removes an entry: every step other than the
\* sweeper's pass leaves every tracked identity in the registry and adds at
\* most the identity of the request inside the critical section.
C26_RequestsOnlyAdd ==
  [][~(mu = "sweeper" /\ mu' = "free") =>
       /\ DOMAIN clients \subseteq DOMAIN clients'
       /\ DOMAIN clients' \ DOMAIN clients \subseteq {cs.ip}]_vars

\* With two identities tracked, the request of the second has been rejected
\* and both entries are still there.
C26_Witness ==
  /\ Cardinality(DOMAIN clients) = 2
  /\ \E ip \in IPs : done = Finished(ip, RejectionResponse(now))
  /\ left.reqs = 0

\* C27: a rejected acquire leaves the bucket as it was, so the client is
\* admissible again at the same times as if the rejected request had not
\* been made.
C27_RejectionSpendsNothing ==
  [][decided'.ip \in IPs /\ ~decided'.ok =>
       /\ limiter' = limiter
       /\ \A d \in {0, HalfInterval(rateLimit), RefillInterval(rateLimit)} :
            Allow(limiter', rateLimit, now + d) = Allow(limiter, rateLimit, now + d)]_vars

\* A request is rejected half a refill interval after the bucket was
\* emptied, with half a token accrued.
C27_Witness ==
  \E ip \in IPs :
    /\ decided.ip = ip /\ ~decided.ok
    /\ limiter.last < now
    /\ Advance(limiter, rateLimit, now) > limiter.tokens
    /\ Allow(limiter, rateLimit, now + HalfInterval(rateLimit)).ok

\* C28: ClerkWebhookMiddleware calls next exactly when the secret is not
\* empty and the X-Clerk-Signature header is not empty and equal to it; it
\* answers 500 when the secret is empty and 401 when the secret is set and
\* the signature is missing or different, without calling next.
C28_WebhookGate ==
  clerk.mw = "webhook" =>
    LET signature == IF clerk.header = << >> THEN "" ELSE clerk.header[1]
        match == clerk.secret # "" /\ signature # "" /\ signature = clerk.secret
    IN /\ clerk.resp.nextCalls = (IF match THEN 1 ELSE 0)
       /\ clerk.secret = "" =>
            clerk.resp.status = 500 /\ clerk.resp.nextCalls = 0
       /\ clerk.secret # "" /\ ~match =>
            clerk.resp.status = 401 /\ clerk.resp.nextCalls = 0

\* A webhook with a signature that is not the secret has been answered 401.
C28_Witness ==
  /\ clerk.mw = "webhook"
  /\ clerk.secret = "whsec_1"
  /\ clerk.header = <<"whsec_2", "whsec_1">>
  /\ clerk.resp.status = 401

\* C29: ClerkAuthMiddleware calls next exactly when the Authorization header
\* is "Bearer", one space and a token Clerk verified, and next then finds
\* the verified session in the request context; every other request is
\* answered 401 without calling next.
C29_AuthGate ==
  clerk.mw = "auth" =>
    LET wellFormed ==
          /\ clerk.header # << >>
          /\ Len(clerk.header[1]) = 3
          /\ clerk.header[1][1] = "Bearer"
          /\ clerk.header[1][2] = " "
          /\ clerk.header[1][3] # " "
        verified == wellFormed /\ clerk.header[1][3] \in clerk.seen
    IN /\ clerk.resp.nextCalls = (IF verified THEN 1 ELSE 0)
       /\ verified => clerk.resp.session = clerk.header[1][3]
       /\ ~verified => clerk.resp.status = 401 /\ clerk.resp.session = "none"

\* A well-formed header with a token Clerk did not hold valid when it was
\* asked has been answered 401, while another session was valid and the
\* token's own session has begun since.
C29_Witness ==
  /\ clerk.mw = "auth"
  /\ clerk.header = << <<"Bearer", " ", "sess_1">> >>
  /\ clerk.seen = {"sess_2"}
  /\ clerk.sessions = {"sess_1", "sess_2"}
  /\ clerk.resp.status = 401

\* C30: a token generated from claims c and verified before its expiry by
\* a service with the same signing key is accepted, and the claims Verify
\* returns have the ID and the Email of c.
C30_RoundTrip ==
  /\ jwt.op = "Verify"
  /\ jwt.minted # << >>
  /\ jwt.svc.SigningKey = jwt.token.key
  /\ jwt.clock < jwt.token.exp
  => /\ jwt.out.err = ""
     /\ jwt.out.claims.ID = jwt.minted[1].ID
     /\ jwt.out.claims.Email = jwt.minted[1].Email
====
